---- MODULE Spec2Model ----
(***************************************************************************)
(* Model of the gistit input validators (services/functions/src/checks.ts) *)
(* and of the colour-mode hook (app/src/hooks/ColorMode.tsx).              *)
(*                                                                         *)
(* Three specifications share the module:                                  *)
(*   Spec      request handlers calling the exported validators            *)
(*   SpecRange the internal helper paramValueInRange applied to inputs     *)
(*   SpecHook  one instance of the useColorMode hook inside React          *)
(***************************************************************************)
EXTENDS Integers, Sequences, FiniteSets, TLC

VARIABLES
    defs,       \* the imported configuration record (defs.json)
    last,       \* the latest validator call: handler, function, inputs, outcome
    rangeCall,  \* an application of paramValueInRange: inputs and result
    mounted,    \* useState(false) of the hook
    theme,      \* the theme held by next-themes (useTheme().theme)
    effectRan,  \* the mount effect (useEffect with [] deps) has run
    ret,        \* what the latest render of the hook returned
    hist        \* the latest theme-related operations on the hook, oldest first

vars == <<defs, last, rangeCall, mounted, theme, effectRan, ret, hist>>

validatorVars == <<defs, last>>
hookVars == <<mounted, theme, effectRan, ret, hist>>

----------------------------------------------------------------------------
(* Bounds of the model *)

MaxHashLength == 1   \* HASH_LENGTH is drawn from 1..MaxHashLength
MaxStrLen == 2       \* hashes have 0..MaxStrLen characters
MaxTextLen == 1      \* author and description have 0..MaxTextLen characters
MaxRange == 1        \* configured MIN and MAX are drawn from 0..MaxRange
MaxSize == 1         \* file sizes are drawn from -MaxSize..MaxSize
MaxBound == 2        \* paramValueInRange alone: MIN, MAX in -MaxBound..MaxBound
MaxValue == 3        \* paramValueInRange alone: value in -MaxValue..MaxValue
HistLen == 3         \* operations remembered in hist

----------------------------------------------------------------------------
(* JavaScript values *)

\* a number, or one of the two absent values
Num(n) == [tag |-> "number", val |-> n]
Undefined == [tag |-> "undefined", val |-> 0]
Null == [tag |-> "null", val |-> 0]

\* a string (a sequence of characters), or one of the two absent values
Str(s) == [tag |-> "string", chars |-> s]
NoStr == [tag |-> "undefined", chars |-> <<>>]
NullStr == [tag |-> "null", chars |-> <<>>]

\* s?.length
OptLength(s) == IF s.tag = "string" THEN Num(Len(s.chars)) ELSE Undefined

\* hash[0]: the first character, undefined for the empty string
FirstChar(hash) == IF Len(hash) > 0 THEN hash[1] ELSE "undefined"

\* the truthiness of a number-or-absent value: 0 and the absent values are falsy
Truthy(v) == v.tag = "number" /\ v.val # 0

RECURSIVE StringsOfLen(_, _)
StringsOfLen(alphabet, n) ==
    IF n = 0 THEN {<<>>}
    ELSE {Append(s, c) : s \in StringsOfLen(alphabet, n - 1), c \in alphabet}

StringsUpTo(alphabet, n) == UNION {StringsOfLen(alphabet, k) : k \in 0..n}

----------------------------------------------------------------------------
(* The configuration record imported from defs.json *)

\* the characters hashes are made of: the two origin tags and one other
PrefixChars == {"@", "#"}
Chars == PrefixChars \cup {"a"}

\* an inclusive {MIN, MAX} window
Ranges == {r \in [MIN : 0..MaxRange, MAX : 0..MaxRange] : r.MIN <= r.MAX}

Configs ==
    {d \in [HASH_LENGTH : 1..MaxHashLength,
            HASH_P2P_PREFIX : PrefixChars,
            HASH_SERVER_PREFIX : PrefixChars,
            AUTHOR_CHAR_LENGTH : Ranges,
            DESCRIPTION_CHAR_LENGTH : Ranges,
            FILE_SIZE : Ranges] :
        d.HASH_P2P_PREFIX # d.HASH_SERVER_PREFIX}

----------------------------------------------------------------------------
(* checks.ts: the validators as functions of (config, input).  A result is  *)
(* whether the call threw, the message of the Error thrown, and the events  *)
(* it passed to the logger, in order.                                       *)

Returned(events) == [threw |-> FALSE, error |-> "", log |-> events]
Threw(message) == [threw |-> TRUE, error |-> message, log |-> <<>>]

\* the range test with || between the two comparisons
paramValueInRange_or(obj, value) ==
    IF Truthy(value) /\ (value.val > obj.MAX \/ value.val < obj.MIN) THEN FALSE
    ELSE TRUE

\* the range test with `value !== undefined` for `value`
paramValueInRange_defined(obj, value) ==
    IF value.tag = "number" /\ value.val > obj.MAX /\ value.val < obj.MIN THEN FALSE
    ELSE TRUE

\* value && value > obj.MAX && value < obj.MIN
paramValueInRange(obj, value) ==
    IF Truthy(value) /\ value.val > obj.MAX /\ value.val < obj.MIN THEN FALSE
    ELSE TRUE

\* checkHash deciding on the first character instead of the length
checkHash_noLengthCheck(d, hash) ==
    CASE FirstChar(hash) = d.HASH_P2P_PREFIX -> Returned(<<"p2p">>)
      [] FirstChar(hash) = d.HASH_SERVER_PREFIX -> Returned(<<"server">>)
      [] OTHER -> Threw("Invalid gistit hash format")

\* checkHash with the first `break` missing
checkHash_fallThrough(d, hash) ==
    IF Len(hash) = d.HASH_LENGTH
    THEN CASE FirstChar(hash) = d.HASH_P2P_PREFIX -> Returned(<<"p2p", "server">>)
           [] FirstChar(hash) = d.HASH_SERVER_PREFIX -> Returned(<<"server">>)
           [] OTHER -> Returned(<<>>)
    ELSE Threw("Invalid gistit hash format")

checkHash(d, hash) ==
    IF Len(hash) = d.HASH_LENGTH
    THEN CASE FirstChar(hash) = d.HASH_P2P_PREFIX -> Returned(<<"p2p">>)
           [] FirstChar(hash) = d.HASH_SERVER_PREFIX -> Returned(<<"server">>)
           [] OTHER -> Returned(<<>>)
    ELSE Threw("Invalid gistit hash format")

\* checkParamsCharLength reading .length without ?.
checkParamsCharLength_noOptionalChaining(d, author, description) ==
    IF author.tag # "string" \/ description.tag # "string"
    THEN Threw("TypeError: Cannot read properties of undefined (reading 'length')")
    ELSE IF /\ paramValueInRange(d.AUTHOR_CHAR_LENGTH, OptLength(author))
            /\ paramValueInRange(d.DESCRIPTION_CHAR_LENGTH, OptLength(description))
         THEN Returned(<<>>)
         ELSE Threw("Invalid author, description or secret character length")

checkParamsCharLength(d, author, description) ==
    IF /\ paramValueInRange(d.AUTHOR_CHAR_LENGTH, OptLength(author))
       /\ paramValueInRange(d.DESCRIPTION_CHAR_LENGTH, OptLength(description))
    THEN Returned(<<>>)
    ELSE Threw("Invalid author, description or secret character length")

checkFileSize(d, size) ==
    IF paramValueInRange(d.FILE_SIZE, size) THEN Returned(<<>>)
    ELSE Threw("File size not allowed")

----------------------------------------------------------------------------
(* Request handlers calling the validators.  JavaScript runs each call to   *)
(* completion, so a call is one step; calls of different handlers follow    *)
(* one another in any order.                                                *)

Handlers == {"h1", "h2"}

Hashes == StringsUpTo(Chars, MaxStrLen)
Texts == {Str(s) : s \in StringsUpTo({"a"}, MaxTextLen)} \cup {NoStr, NullStr}
Sizes == {Num(n) : n \in -MaxSize..MaxSize}

NoCall ==
    [handler |-> "none", fn |-> "none", hash |-> <<>>, author |-> NoStr,
     description |-> NoStr, size |-> Undefined, result |-> Returned(<<>>)]

\* checkHash with `defs.HASH_LENGTH = hash.length` (an assignment) as its test
CallCheckHash_assignsLength(h, hash) ==
    /\ last' = [NoCall EXCEPT !.handler = h, !.fn = "checkHash", !.hash = hash,
                              !.result = IF Len(hash) # 0
                                         THEN checkHash([defs EXCEPT !.HASH_LENGTH = Len(hash)], hash)
                                         ELSE Threw("Invalid gistit hash format")]
    /\ defs' = [defs EXCEPT !.HASH_LENGTH = Len(hash)]
    /\ UNCHANGED <<rangeCall, hookVars>>

CallCheckHash(h, hash) ==
    /\ last' = [NoCall EXCEPT !.handler = h, !.fn = "checkHash", !.hash = hash,
                              !.result = checkHash(defs, hash)]
    /\ defs' = defs
    /\ UNCHANGED <<rangeCall, hookVars>>

CallCheckParamsCharLength(h, author, description) ==
    /\ last' = [NoCall EXCEPT !.handler = h, !.fn = "checkParamsCharLength",
                              !.author = author, !.description = description,
                              !.result = checkParamsCharLength(defs, author, description)]
    /\ defs' = defs
    /\ UNCHANGED <<rangeCall, hookVars>>

CallCheckFileSize(h, size) ==
    /\ last' = [NoCall EXCEPT !.handler = h, !.fn = "checkFileSize", !.size = size,
                              !.result = checkFileSize(defs, size)]
    /\ defs' = defs
    /\ UNCHANGED <<rangeCall, hookVars>>

----------------------------------------------------------------------------
(* paramValueInRange applied on its own to a range and a value *)

AllRanges == [MIN : -MaxBound..MaxBound, MAX : -MaxBound..MaxBound]
Values == {Num(n) : n \in -MaxValue..MaxValue} \cup {Undefined, Null}

NoRangeCall == [obj |-> [MIN |-> 0, MAX |-> 0], value |-> Undefined,
                done |-> FALSE, ret |-> FALSE]

ApplyParamValueInRange ==
    /\ ~rangeCall.done
    /\ rangeCall' = [rangeCall EXCEPT !.done = TRUE,
                                      !.ret = paramValueInRange(rangeCall.obj, rangeCall.value)]
    /\ UNCHANGED <<validatorVars, hookVars>>

----------------------------------------------------------------------------
(* ColorMode.tsx: one instance of the useColorMode hook *)

\* "undefined" stands for the theme next-themes reports before it has one
Themes == {"dark", "light", "system", "undefined"}
SettableThemes == {"dark", "light", "system"}

NotRendered == [kind |-> "none", seen |-> "n/a"]

\* the toggle with its test on 'light'
nextTheme_fromLight(t) == IF t = "light" THEN "dark" ELSE "light"

\* theme === 'dark' ? 'light' : 'dark'
nextTheme(t) == IF t = "dark" THEN "light" ELSE "dark"

\* the value a render of the hook returns: null, or a closure over theme
useColorMode(m, t) ==
    IF ~m THEN [kind |-> "null", seen |-> "n/a"]
    ELSE [kind |-> "toggle", seen |-> t]

\* hist keeps the latest HistLen operations
Push(h, e) ==
    IF Len(h) < HistLen THEN Append(h, e) ELSE Append(Tail(h), e)

\* React renders the component: the first time, after a state or context
\* change, or because its parent rendered
Render ==
    /\ ret' = useColorMode(mounted, theme)
    /\ hist' = Push(hist, [op |-> "render", before |-> theme, seen |-> theme])
    /\ UNCHANGED <<mounted, theme, effectRan, validatorVars, rangeCall>>

\* useEffect(() => setMounted(false), [])
MountEffect_setsFalse ==
    /\ ret.kind # "none"
    /\ ~effectRan
    /\ effectRan' = TRUE
    /\ mounted' = FALSE
    /\ UNCHANGED <<theme, ret, hist, validatorVars, rangeCall>>

\* useEffect(() => setMounted(true), []): once, after the first render
MountEffect ==
    /\ ret.kind # "none"
    /\ ~effectRan
    /\ effectRan' = TRUE
    /\ mounted' = TRUE
    /\ UNCHANGED <<theme, ret, hist, validatorVars, rangeCall>>

\* the host page calls the function the latest render returned
Toggle ==
    /\ ret.kind = "toggle"
    /\ theme' = nextTheme(ret.seen)
    /\ hist' = Push(hist, [op |-> "toggle", before |-> theme, seen |-> ret.seen])
    /\ UNCHANGED <<mounted, effectRan, ret, validatorVars, rangeCall>>

\* another user of next-themes sets the theme
SetThemeElsewhere(t) ==
    /\ theme' = t
    /\ hist' = Push(hist, [op |-> "set", before |-> theme, seen |-> "n/a"])
    /\ UNCHANGED <<mounted, effectRan, ret, validatorVars, rangeCall>>

----------------------------------------------------------------------------
(* Specifications *)

\* the configuration in the specifications that call no exported validator
AnyConfig == CHOOSE d \in Configs : TRUE

HookIdle ==
    /\ mounted = FALSE
    /\ theme = "undefined"
    /\ effectRan = FALSE
    /\ ret = NotRendered
    /\ hist = <<>>

Init ==
    /\ defs \in Configs
    /\ last = NoCall
    /\ rangeCall = NoRangeCall
    /\ HookIdle

Next ==
    \/ \E h \in Handlers, hash \in Hashes : CallCheckHash(h, hash)
    \/ \E h \in Handlers, author \in Texts, description \in Texts :
           CallCheckParamsCharLength(h, author, description)
    \/ \E h \in Handlers, size \in Sizes : CallCheckFileSize(h, size)

Spec == Init /\ [][Next]_vars

InitRange ==
    /\ defs = AnyConfig
    /\ last = NoCall
    /\ rangeCall \in [obj : AllRanges, value : Values, done : {FALSE}, ret : {FALSE}]
    /\ HookIdle

NextRange == ApplyParamValueInRange

SpecRange == InitRange /\ [][NextRange]_vars

InitHook ==
    /\ defs = AnyConfig
    /\ last = NoCall
    /\ rangeCall = NoRangeCall
    /\ mounted = FALSE
    /\ theme \in Themes
    /\ effectRan = FALSE
    /\ ret = NotRendered
    /\ hist = <<>>

NextHook ==
    \/ Render
    \/ MountEffect
    \/ Toggle
    \/ \E t \in SettableThemes : SetThemeElsewhere(t)

SpecHook == InitHook /\ [][NextHook]_vars

----------------------------------------------------------------------------
(* Properties of checkHash *)

HashCall == last.fn = "checkHash"

\* C1: checkHash(h) throws 'Invalid gistit hash format' if and only if the
\* length of h differs from HASH_LENGTH; a hash of that length is accepted
\* whatever its first character is.
C1_ThrowsIffLengthDiffers ==
    HashCall =>
        /\ last.result.threw <=> Len(last.hash) # defs.HASH_LENGTH
        /\ last.result.threw => last.result.error = "Invalid gistit hash format"

C1_Witness ==
    /\ HashCall
    /\ Len(last.hash) = defs.HASH_LENGTH
    /\ FirstChar(last.hash) \notin {defs.HASH_P2P_PREFIX, defs.HASH_SERVER_PREFIX}
    /\ ~last.result.threw

\* C2: for a hash of length HASH_LENGTH, checkHash logs exactly one event
\* "p2p" when the first character is HASH_P2P_PREFIX, exactly one event
\* "server" when it is HASH_SERVER_PREFIX, and nothing otherwise.
C2_LogsOrigin ==
    (HashCall /\ Len(last.hash) = defs.HASH_LENGTH) =>
        /\ FirstChar(last.hash) = defs.HASH_P2P_PREFIX => last.result.log = <<"p2p">>
        /\ FirstChar(last.hash) = defs.HASH_SERVER_PREFIX => last.result.log = <<"server">>
        /\ FirstChar(last.hash) \notin {defs.HASH_P2P_PREFIX, defs.HASH_SERVER_PREFIX}
               => last.result.log = <<>>

C2_Witness ==
    /\ HashCall
    /\ Len(last.hash) = defs.HASH_LENGTH
    /\ FirstChar(last.hash) = defs.HASH_P2P_PREFIX
    /\ last.result.log = <<"p2p">>

----------------------------------------------------------------------------
(* Properties of checkParamsCharLength and checkFileSize *)

ParamsCall == last.fn = "checkParamsCharLength"

\* the length of a present string lies outside the inclusive window
OutsideWindow(range, s) ==
    s.tag = "string" /\ (Len(s.chars) < range.MIN \/ Len(s.chars) > range.MAX)

Absent(s) == s.tag # "string"

\* C3: checkParamsCharLength throws whenever the length of author or the
\* length of description lies outside its configured inclusive window.
C3_RejectsOutsideWindow ==
    (ParamsCall /\ (\/ OutsideWindow(defs.AUTHOR_CHAR_LENGTH, last.author)
                    \/ OutsideWindow(defs.DESCRIPTION_CHAR_LENGTH, last.description)))
        => last.result.threw

\* C5: checkFileSize never throws, whatever the (finite) size is.
C5_FileSizeNeverThrows ==
    last.fn = "checkFileSize" => ~last.result.threw

C5_Witness ==
    /\ last.fn = "checkFileSize"
    /\ last.size.val > defs.FILE_SIZE.MAX
    /\ ~last.result.threw

\* C6: an absent field does not make checkParamsCharLength throw: with both
\* fields absent the call returns, and with one field absent the call throws
\* only if the other, present, field is rejected by the range check.
C6_AbsentFieldAccepted ==
    ParamsCall =>
        /\ (Absent(last.author) /\ Absent(last.description)) => ~last.result.threw
        /\ (Absent(last.author) /\ last.result.threw) =>
               /\ ~Absent(last.description)
               /\ LET n == Len(last.description.chars)
                  IN  n # 0 /\ n > defs.DESCRIPTION_CHAR_LENGTH.MAX
                            /\ n < defs.DESCRIPTION_CHAR_LENGTH.MIN
        /\ (Absent(last.description) /\ last.result.threw) =>
               /\ ~Absent(last.author)
               /\ LET n == Len(last.author.chars)
                  IN  n # 0 /\ n > defs.AUTHOR_CHAR_LENGTH.MAX
                            /\ n < defs.AUTHOR_CHAR_LENGTH.MIN

C6_Witness ==
    /\ ParamsCall
    /\ last.author = NoStr
    /\ last.description = NoStr
    /\ ~last.result.threw

----------------------------------------------------------------------------
(* The validators and the configuration *)

\* what a call yields when it runs alone under configuration d
Alone(d, call) ==
    CASE call.fn = "checkHash" -> checkHash(d, call.hash)
      [] call.fn = "checkParamsCharLength" ->
             checkParamsCharLength(d, call.author, call.description)
      [] call.fn = "checkFileSize" -> checkFileSize(d, call.size)
      [] OTHER -> Returned(<<>>)

\* C7: no validator call changes the configuration, and the outcome of each
\* call (return or throw, and the events logged) is the one the call has when
\* run alone under the configuration, whichever handler called before it.
C7_ConfigUntouched ==
    [][defs' = defs /\ last'.result = Alone(defs, last')]_vars

C7_Witness ==
    /\ last.handler = "h2"
    /\ HashCall
    /\ last.result.log = <<"server">>
    /\ defs \in Configs

----------------------------------------------------------------------------
(* Properties of paramValueInRange *)

\* C4: for a range with MIN <= MAX, paramValueInRange returns true for every
\* value: below MIN, above MAX, or absent.
C4_AlwaysInRange ==
    (rangeCall.done /\ rangeCall.obj.MIN <= rangeCall.obj.MAX) => rangeCall.ret

C4_Witness ==
    /\ rangeCall.done
    /\ rangeCall.obj.MIN <= rangeCall.obj.MAX
    /\ rangeCall.value.tag = "number"
    /\ rangeCall.value.val > rangeCall.obj.MAX
    /\ rangeCall.ret

\* C8: for every range and value, paramValueInRange returns false exactly when
\* the value is a non-zero number above MAX and below MIN; 0 is treated like
\* an absent value and yields true even when MAX < 0 < MIN.
C8_FalseOnlyBetween ==
    rangeCall.done =>
        /\ ~rangeCall.ret <=>
               /\ rangeCall.value.tag = "number"
               /\ rangeCall.value.val # 0
               /\ rangeCall.value.val > rangeCall.obj.MAX
               /\ rangeCall.value.val < rangeCall.obj.MIN
        /\ rangeCall.value = Num(0) => rangeCall.ret
        /\ rangeCall.value \in {Undefined, Null} => rangeCall.ret

C8_Witness ==
    /\ rangeCall.done
    /\ rangeCall.value = Num(0)
    /\ rangeCall.obj.MAX < 0
    /\ rangeCall.obj.MIN > 0
    /\ rangeCall.ret

----------------------------------------------------------------------------
(* Properties of useColorMode *)

\* C9: a render before the mount effect has run returns null, a render after
\* it returns a toggle function; mounted never goes back to false, and the
\* hook never returns null after having returned a toggle function.
C9_NullUntilMounted ==
    [][/\ Render => /\ ret'.kind = "null" <=> ~effectRan
                    /\ ret'.kind = "toggle" <=> effectRan
       /\ mounted => mounted'
       /\ ret.kind = "toggle" => ret'.kind = "toggle"]_vars

C9_Witness ==
    /\ effectRan
    /\ mounted
    /\ ret.kind = "toggle"
    /\ \E i \in 1..Len(hist) : hist[i].op = "render"

\* the latest three operations are a toggle, a render and a toggle
TwoToggles ==
    /\ Len(hist) >= 3
    /\ hist[Len(hist) - 2].op = "toggle"
    /\ hist[Len(hist) - 1].op = "render"
    /\ hist[Len(hist)].op = "toggle"

FirstToggle == hist[Len(hist) - 2]

JustToggled == Len(hist) >= 1 /\ hist[Len(hist)].op = "toggle"

\* a toggle sets 'light' when its render saw 'dark' and 'dark' otherwise
ToggleFlips ==
    JustToggled =>
        /\ theme = (IF hist[Len(hist)].seen = "dark" THEN "light" ELSE "dark")
        /\ theme \in {"dark", "light"}

\* C10 as stated: a toggle sets 'light' from a render that saw 'dark' and
\* 'dark' from any other; two toggles with a re-render between them restore
\* the theme they started from whenever it was 'dark' or 'light'.
C10_AsStated ==
    /\ ToggleFlips
    /\ (TwoToggles /\ FirstToggle.before \in {"dark", "light"})
           => theme = FirstToggle.before

\* C10 amended: the two toggles restore the theme they started from when, in
\* addition, the render the first toggle came from had seen that theme.
C10_TogglesRestoreWhenFresh ==
    /\ ToggleFlips
    /\ (TwoToggles /\ FirstToggle.before \in {"dark", "light"}
                   /\ FirstToggle.seen = FirstToggle.before)
           => theme = FirstToggle.before

C10_Witness ==
    /\ TwoToggles
    /\ FirstToggle.before = "dark"
    /\ FirstToggle.seen = "dark"
    /\ theme = "dark"

====
